---- MODULE Spec2Model ----
(***************************************************************************)
(* Model of the personalised-parameter learner of                          *)
(* agents/learning/model.py (class Model) and of its caller                *)
(* agents/navigation/learning_agent.py (class LearningAgent).              *)
(*                                                                         *)
(* Python floats are modelled as exact rationals <<n, d>> (d > 0, lowest   *)
(* terms): every property below is a property of the real-number           *)
(* arithmetic the code writes down, not of IEEE rounding.                  *)
(* Python indices are 0-based and are kept 0-based in the model            *)
(* (start_index, slices); Nth0 reads a TLA+ sequence at a Python index.    *)
(***************************************************************************)
EXTENDS Integers, Sequences, FiniteSets, TLC

VARIABLES
    model,          \* Model._model: the in-memory parameter dictionary
    model_file,     \* contents of data/model.pickle (Model._model_path)
    distance_list,  \* Model._distance_list
    velocity_list,  \* Model._velocity_list
    radar_list,     \* Model._radar_list
    poly_points,    \* Model._poly_points
    sin_points,     \* Model._sin_points
    gmm_file,       \* rows of data/GMM_train_data.csv (<<>>: no file)
    world,          \* the simulator the caller samples on every tick
    last,           \* the call that returned last and how it ended
    call            \* argument/result frame of a static method called alone

vars == <<model, model_file, distance_list, velocity_list, radar_list,
          poly_points, sin_points, gmm_file, world, last, call>>

-----------------------------------------------------------------------------
(* Float arithmetic, as exact rationals.                                   *)

RECURSIVE GCD(_, _)
GCD(a, b) == IF b = 0 THEN a ELSE GCD(b, a % b)

IAbs(n) == IF n < 0 THEN -n ELSE n

\* the rational n/d in lowest terms with a positive denominator (d # 0)
Frac(n, d) ==
    LET g == GCD(IAbs(n), IAbs(d))
        s == IF d < 0 THEN -1 ELSE 1
    IN  <<(s * n) \div g, (s * d) \div g>>

R(n) == <<n, 1>>

RNeg(a) == <<-a[1], a[2]>>

RAbs(a) == <<IAbs(a[1]), a[2]>>

RAdd(a, b) ==
    LET g == GCD(a[2], b[2])
    IN  Frac(a[1] * (b[2] \div g) + b[1] * (a[2] \div g), (a[2] \div g) * b[2])

RSub(a, b) == RAdd(a, RNeg(b))

\* cross-cancelled before multiplying, so that intermediate products stay small
RMul(a, b) ==
    LET g1 == GCD(IAbs(a[1]), b[2])
        g2 == GCD(IAbs(b[1]), a[2])
    IN  Frac((a[1] \div g1) * (b[1] \div g2), (a[2] \div g2) * (b[2] \div g1))

\* b # 0
RDiv(a, b) == RMul(a, Frac(b[2], b[1]))

RLt(a, b) == a[1] * b[2] < b[1] * a[2]

RGt(a, b) == RLt(b, a)

RLe(a, b) == ~RLt(b, a)

RECURSIVE RPow(_, _)
RPow(a, k) == IF k = 0 THEN R(1) ELSE RMul(a, RPow(a, k - 1))

RECURSIVE RSum(_)
RSum(s) == IF s = <<>> THEN R(0) ELSE RAdd(Head(s), RSum(Tail(s)))

\* -1, 0 or 1
RSign(a) == IF a[1] < 0 THEN -1 ELSE IF a[1] = 0 THEN 0 ELSE 1

\* a sequence written as a function, as the tuple it denotes
Tup(f) == f \o <<>>

\* element at Python index i (0 <= i < len(s))
Nth0(s, i) == s[i + 1]

\* Python slice s[0:n]
Slice0(s, n) == SubSeq(s, 1, IF n < Len(s) THEN n ELSE Len(s))

-----------------------------------------------------------------------------
(* Model.change_param                                                      *)

\* the default of the max_change_rate parameter, 0.1
DefaultRate == Frac(1, 10)

\* variant: the test compares the signed difference, not its magnitude
ChangeParamSigned(current, new, max_change_rate) ==
    IF RLt(RSub(new, current), RMul(max_change_rate, RAbs(current)))
    THEN new
    ELSE IF RGt(new, current)
         THEN RAdd(current, RMul(max_change_rate, RAbs(current)))
         ELSE RSub(current, RMul(max_change_rate, RAbs(current)))

\* variant: the step is max_change_rate * current, without abs()
ChangeParamNoAbs(current, new, max_change_rate) ==
    IF RLt(RAbs(RSub(new, current)), RMul(max_change_rate, RAbs(current)))
    THEN new
    ELSE IF RGt(new, current)
         THEN RAdd(current, RMul(max_change_rate, current))
         ELSE RSub(current, RMul(max_change_rate, current))

ChangeParam(current, new, max_change_rate) ==
    IF RLt(RAbs(RSub(new, current)), RMul(max_change_rate, RAbs(current)))
    THEN new
    ELSE IF RGt(new, current)
         THEN RAdd(current, RMul(max_change_rate, RAbs(current)))
         ELSE RSub(current, RMul(max_change_rate, RAbs(current)))

-----------------------------------------------------------------------------
(* Parameter store: Model.load_model, Model.store_new_model                *)

\* the default model written when data/model.pickle does not exist
DefaultModel ==
    [safe_distance |-> R(10),
     target_speed  |-> R(28),
     poly_param    |-> [lon_dis |-> R(30), lat_dis |-> Frac(-7, 2), dt |-> R(4),
                        lon_param |-> <<R(0), R(7), R(0), Frac(3125, 10000),
                                        Frac(-1172, 10000), Frac(117, 10000)>>,
                        lat_param |-> <<R(0), R(0), R(0), Frac(-5469, 10000),
                                        Frac(2051, 10000), Frac(-205, 10000)>>],
     sin_param     |-> [lon_dis |-> R(30), lat_dis |-> Frac(-7, 2), dt |-> R(4)]]

\* pickle.dump of the dictionary: the file holds its (key, value) items in
\* insertion order, nested dictionaries likewise
PickleDump(m) ==
    <<  <<"safe_distance", m.safe_distance>>,
        <<"target_speed", m.target_speed>>,
        <<"poly_param", << <<"lon_dis", m.poly_param.lon_dis>>,
                           <<"lat_dis", m.poly_param.lat_dis>>,
                           <<"dt", m.poly_param.dt>>,
                           <<"lon_param", m.poly_param.lon_param>>,
                           <<"lat_param", m.poly_param.lat_param>> >> >>,
        <<"sin_param",  << <<"lon_dis", m.sin_param.lon_dis>>,
                           <<"lat_dis", m.sin_param.lat_dis>>,
                           <<"dt", m.sin_param.dt>> >> >> >>

\* the value stored under key k in a dumped dictionary
ItemOf(items, k) ==
    LET i == CHOOSE j \in 1..Len(items) : items[j][1] = k IN items[i][2]

\* pickle.load: a fresh dictionary rebuilt from the file's items
PickleLoad(f) ==
    LET pp == ItemOf(f, "poly_param")
        sp == ItemOf(f, "sin_param")
    IN  [safe_distance |-> ItemOf(f, "safe_distance"),
         target_speed  |-> ItemOf(f, "target_speed"),
         poly_param    |-> [lon_dis |-> ItemOf(pp, "lon_dis"),
                            lat_dis |-> ItemOf(pp, "lat_dis"),
                            dt |-> ItemOf(pp, "dt"),
                            lon_param |-> ItemOf(pp, "lon_param"),
                            lat_param |-> ItemOf(pp, "lat_param")],
         sin_param     |-> [lon_dis |-> ItemOf(sp, "lon_dis"),
                            lat_dis |-> ItemOf(sp, "lat_dis"),
                            dt |-> ItemOf(sp, "dt")]]

\* Model.get_parameter
GetParameter(keyword) == model[keyword]

-----------------------------------------------------------------------------
(* The simulator: what the caller can observe on a tick.                   *)
(* The ego vehicle drives straight, may start one lane change to the left  *)
(* at tick Drive.lc_start, and holds the new lane afterwards.                     *)

\* number of ticks (collect calls) of a session
MaxTick == 56

\* the longest lane change, in ticks
MaxLeft == 11

\* the driven scenario: pose, clock, speeds and sensor readings per tick
Drive ==
    [origin   |-> <<R(100), R(50), R(0)>>,  \* world position before tick 1
     yaw      |-> 0,                        \* heading of the road, degrees
     tick_ms  |-> 375,                      \* clock advance per tick
     x_step   |-> R(3),                     \* forward metres per tick
     y_step   |-> Frac(-7, 20),             \* lateral metres per lane-change tick
     lc_start |-> 45,                       \* tick a lane change may start on
     min_left |-> 10,                       \* shortest lane change, in ticks
     slow     |-> R(5),                     \* v.x up to tick speed_up
     fast     |-> R(8),                     \* v.x after tick speed_up
     speed_up |-> 30,
     drift    |-> Frac(1, 10),              \* v.y while cruising
     swerve   |-> Frac(-1, 5),              \* v.y while changing lane
     obstacle |-> 27,                       \* first tick with an obstacle ahead
     gap0     |-> 935,                      \* obstacle distance, cm, at tick 0
     closing  |-> 10,                       \* cm the obstacle closes per tick
     rear     |-> 40]                       \* first tick with a car behind-left

\* world before the first tick
World0 == [tick |-> 0, phase |-> "straight", left |-> 0, t_ms |-> 0, stalled |-> FALSE]

\* the worlds one tick later: the driver keeps the lane, starts the lane change
\* (the clock may stall from then on), continues it or ends it
WorldSteps(w) ==
    LET adv(ph, lf, st) ==
            [tick |-> w.tick + 1, phase |-> ph, left |-> lf, stalled |-> st,
             t_ms |-> IF st THEN w.t_ms ELSE w.t_ms + Drive.tick_ms]
    IN  IF w.phase = "straight"
        THEN {adv("straight", 0, FALSE)}
             \cup (IF w.tick + 1 = Drive.lc_start
                   THEN {adv("left", 1, FALSE), adv("left", 1, TRUE)} ELSE {})
        ELSE IF w.phase = "left"
        THEN (IF w.left < MaxLeft THEN {adv("left", w.left + 1, w.stalled)} ELSE {})
             \cup (IF w.left >= Drive.min_left
                   THEN {adv("after", w.left, w.stalled)} ELSE {})
        ELSE {adv("after", w.left, w.stalled)}

\* trajectory point (x, y, z, yaw, t_ms) of the ego vehicle in world w
PointOf(w) ==
    <<RAdd(Drive.origin[1], RMul(R(w.tick), Drive.x_step)),
      RAdd(Drive.origin[2], RMul(R(w.left), Drive.y_step)),
      Drive.origin[3], Drive.yaw, w.t_ms>>

\* carla.Vector3D velocity of the ego vehicle in world w
VelocityOf(w) ==
    IF w.tick = 1 THEN [x |-> R(0), y |-> R(0), z |-> R(0)]
    ELSE [x |-> IF w.tick <= Drive.speed_up THEN Drive.slow ELSE Drive.fast,
          y |-> IF w.phase = "left" THEN Drive.swerve
                ELSE IF w.phase = "after" THEN R(0) ELSE Drive.drift,
          z |-> R(0)]

\* radar snapshot: slots front, front-left, rear-left; a slot is empty or
\* <<actor, <<distance>>>>
RadarsOf(w) ==
    << <<>>,
       <<"lead", <<R(60 - w.tick)>> >>,
       IF w.tick >= Drive.rear THEN <<"tail", <<R(-w.tick)>> >> ELSE <<>> >>

\* the observation record handed to Model.collect on the tick that led to w;
\* "tick" tags each sample with the collect call that recorded it
Observation(w) ==
    LET base == [velocity |-> [v |-> VelocityOf(w), tick |-> w.tick],
                 points   |-> [p |-> PointOf(w), tick |-> w.tick],
                 radars   |-> [r |-> RadarsOf(w), tick |-> w.tick]]
    IN  IF w.tick >= Drive.obstacle
        THEN [velocity |-> base.velocity, points |-> base.points, radars |-> base.radars,
              distance |-> [d |-> Frac(Drive.gap0 - Drive.closing * w.tick, 100),
                            tick |-> w.tick]]
        ELSE base

-----------------------------------------------------------------------------
(* Model.__init__ and Model.collect                                        *)

\* frame of a static method that is not being called on its own
NoCall == [fn |-> "none"]

\* Model(): no model file exists, load_model writes the default one and loads
\* it; the sample buffers are empty
Constructed ==
    /\ model_file = PickleDump(DefaultModel)
    /\ model = PickleLoad(model_file)
    /\ distance_list = <<>>
    /\ velocity_list = <<>>
    /\ radar_list = <<>>
    /\ poly_points = <<>>
    /\ sin_points = <<>>
    /\ gmm_file = <<>>
    /\ world = World0
    /\ last = [op |-> "__init__", outcome |-> "ok"]

Init == Constructed /\ call = NoCall

\* Model.collect(dict_param): append every field present
ModelCollect(dict_param) ==
    LET has(k) == k \in DOMAIN dict_param IN
    /\ velocity_list' = IF has("velocity") THEN Append(velocity_list, dict_param["velocity"])
                        ELSE velocity_list
    /\ distance_list' = IF has("distance") THEN Append(distance_list, dict_param["distance"])
                        ELSE distance_list
    /\ poly_points' = IF has("points") THEN Append(poly_points, dict_param["points"])
                      ELSE poly_points
    /\ sin_points' = IF has("points") THEN Append(sin_points, dict_param["points"])
                     ELSE sin_points
    /\ radar_list' = IF has("radars") THEN Append(radar_list, dict_param["radars"])
                     ELSE radar_list

\* one tick of the driving loop: the world moves on and is sampled
Collect ==
    /\ world.tick < MaxTick
    /\ \E w \in WorldSteps(world) :
         /\ world' = w
         /\ ModelCollect(Observation(w))
    /\ last' = [op |-> "collect", outcome |-> "ok"]
    /\ UNCHANGED <<model, model_file, gmm_file, call>>

-----------------------------------------------------------------------------
(* Model.get_lane_changing_points                                          *)

\* cos and sin of a heading given in degrees (multiples of 90 only)
Cos(deg) == IF deg % 360 = 0 THEN 1 ELSE IF deg % 360 = 180 THEN -1 ELSE 0
Sin(deg) == IF deg % 360 = 90 THEN 1 ELSE IF deg % 360 = 270 THEN -1 ELSE 0

\* agents.tools.misc.transform_to_frame: positions expressed in the frame of
\* ref = (x, y, z, yaw): translated by -position, rotated by -yaw
TransformToFrame(ref, pts) ==
    Tup([i \in 1..Len(pts) |->
        LET dx == RSub(pts[i][1], ref[1])
            dy == RSub(pts[i][2], ref[2])
        IN  <<RAdd(RMul(R(Cos(ref[4])), dx), RMul(R(Sin(ref[4])), dy)),
              RSub(RMul(R(Cos(ref[4])), dy), RMul(R(Sin(ref[4])), dx)),
              RSub(pts[i][3], ref[3])>>])

\* the lateral step that marks a lane change to the left, -0.02
LeftStep == Frac(-2, 100)

\* index = e_y < -0.02: index[i] (Python index i - 1) compares sample i + 1
\* with sample i
LaneMask(y_v) ==
    Tup([i \in 1..(Len(y_v) - 1) |-> RLt(RSub(y_v[i + 1], y_v[i]), LeftStep)])

\* the positions (1-based) of the mask that are set, ascending
MaskHits(index) ==
    SelectSeq([i \in 1..Len(index) |-> i], LAMBDA i : index[i])

\* for i, val in enumerate(index): if val: start_index = i; break
StartIndexOf(index) ==
    LET hits == MaskHits(index)
    IN  IF hits = <<>> THEN -1 ELSE hits[1] - 1

\* v[1:][index], then v -= v[0] when anything was kept
KeepAndZero(v, index) ==
    LET hits == MaskHits(index)
    IN  Tup([k \in 1..Len(hits) |-> RSub(v[hits[k] + 1], v[hits[1] + 1])])

GetLaneChangingPoints(points) ==
    LET ref      == points[1]
        points_v == TransformToFrame(<<ref[1], ref[2], ref[3], ref[4]>>, points)
        x_v      == Tup([i \in 1..Len(points) |-> points_v[i][1]])
        y_v      == Tup([i \in 1..Len(points) |-> points_v[i][2]])
        t_v      == Tup([i \in 1..Len(points) |-> Frac(points[i][5], 1000)])
        index    == LaneMask(y_v)
    IN  [x_v |-> KeepAndZero(x_v, index),
         y_v |-> KeepAndZero(y_v, index),
         t_v |-> KeepAndZero(t_v, index),
         start_index |-> StartIndexOf(index)]

\* the trajectory points of a buffer, without the tags
PointsIn(buffer) == Tup([i \in 1..Len(buffer) |-> buffer[i].p])

-----------------------------------------------------------------------------
(* numpy: np.linalg.inv and np.matmul, exact                               *)

RowScale(row, k) == Tup([j \in 1..Len(row) |-> RMul(row[j], k)])

RowSubMul(row, piv, k) ==
    Tup([j \in 1..Len(row) |-> RSub(row[j], RMul(k, piv[j]))])

\* Gauss-Jordan elimination of the augmented matrix A from column c on;
\* <<>> when a column has no pivot (LinAlgError: Singular matrix)
RECURSIVE Eliminate(_, _)
Eliminate(A, c) ==
    IF c > Len(A) THEN A
    ELSE LET cand == {r \in c..Len(A) : A[r][c] # R(0)}
         IN  IF cand = {} THEN <<>>
             ELSE LET p   == CHOOSE r \in cand : \A q \in cand : r <= q
                      S   == [A EXCEPT ![c] = A[p], ![p] = A[c]]
                      piv == RowScale(S[c], RDiv(R(1), S[c][c]))
                  IN  Eliminate(Tup([r \in 1..Len(A) |->
                                    IF r = c THEN piv
                                    ELSE RowSubMul(S[r], piv, S[r][c])]), c + 1)

LinalgInv(M) ==
    LET n   == Len(M)
        aug == Tup([r \in 1..n |-> M[r] \o [j \in 1..n |-> IF j = r THEN R(1) ELSE R(0)]])
        res == Eliminate(aug, 1)
    IN  IF res = <<>> THEN <<>> ELSE Tup([r \in 1..n |-> SubSeq(res[r], n + 1, 2 * n)])

\* np.matmul of a matrix and a vector
MatVec(M, v) ==
    Tup([r \in 1..Len(M) |-> RSum(Tup([j \in 1..Len(v) |-> RMul(M[r][j], v[j])]))])

-----------------------------------------------------------------------------
(* Model.update_poly_param                                                 *)

\* fewest buffered points update_poly_param works on
MinPolyPoints == 50

\* fewest lane-change points either fitter works on
MinLanePoints == 10

\* the boundary-value matrix M of the quintic, for duration dt
BoundaryMatrix(dt) ==
    << <<R(1), R(0), R(0), R(0), R(0), R(0)>>,
       <<R(0), R(1), R(0), R(0), R(0), R(0)>>,
       <<R(0), R(0), R(2), R(0), R(0), R(0)>>,
       <<R(1), dt, RPow(dt, 2), RPow(dt, 3), RPow(dt, 4), RPow(dt, 5)>>,
       <<R(0), R(1), RMul(R(2), dt), RMul(R(3), RPow(dt, 2)),
         RMul(R(4), RPow(dt, 3)), RMul(R(5), RPow(dt, 4))>>,
       <<R(0), R(0), R(2), RMul(R(6), dt), RMul(R(12), RPow(dt, 2)),
         RMul(R(20), RPow(dt, 3))>> >>

\* variant: the longitudinal axis starts from rest
StateLonFromRest(lon_dis, desired_lon_speed) ==
    <<R(0), R(0), R(0), lon_dis, desired_lon_speed, R(0)>>

StateLon(lon_dis, desired_lon_speed) ==
    <<R(0), desired_lon_speed, R(0), lon_dis, desired_lon_speed, R(0)>>

StateLat(lat_dis) == <<R(0), R(0), R(0), lat_dis, R(0), R(0)>>

\* new_dt, new_lon_dis, new_lat_dis of an extracted lane change
Observed(lc) ==
    [dt      |-> RSub(lc.t_v[Len(lc.t_v)], lc.t_v[1]),
     lon_dis |-> RSub(lc.x_v[Len(lc.x_v)], lc.x_v[1]),
     lat_dis |-> RSub(lc.y_v[Len(lc.y_v)], lc.y_v[1])]

\* the three values blended against the stored ones
Blended(current, new) ==
    [dt      |-> ChangeParam(current.dt, new.dt, DefaultRate),
     lon_dis |-> ChangeParam(current.lon_dis, new.lon_dis, DefaultRate),
     lat_dis |-> ChangeParam(current.lat_dis, new.lat_dis, DefaultRate)]

\* the poly_param dictionary fitted to the blended values b (b.dt # 0)
PolyFit(b) ==
    LET desired_lon_speed == RDiv(b.lon_dis, b.dt)
        Minv == LinalgInv(BoundaryMatrix(b.dt))
    IN  [lat_dis |-> b.lat_dis, lon_dis |-> b.lon_dis, dt |-> b.dt,
         lat_param |-> MatVec(Minv, StateLat(b.lat_dis)),
         lon_param |-> MatVec(Minv, StateLon(b.lon_dis, desired_lon_speed))]

UpdatePolyParam ==
    /\ IF Len(poly_points) < MinPolyPoints
       THEN /\ last' = [op |-> "update_poly_param", outcome |-> "noop"]
            /\ UNCHANGED <<model, poly_points>>
       ELSE LET lc == GetLaneChangingPoints(PointsIn(poly_points))
            IN  IF Len(lc.x_v) < MinLanePoints
                THEN /\ last' = [op |-> "update_poly_param", outcome |-> "noop"]
                     /\ UNCHANGED <<model, poly_points>>
                ELSE LET b == Blended(GetParameter("poly_param"), Observed(lc))
                     IN  IF b.dt = R(0)
                         THEN \* lon_dis/dt would divide by zero (no blend of a
                              \* positive dt is 0: this branch is never taken)
                              /\ last' = [op |-> "update_poly_param",
                                          outcome |-> "ZeroDivisionError"]
                              /\ UNCHANGED <<model, poly_points>>
                         ELSE /\ model' = [model EXCEPT !.poly_param = PolyFit(b)]
                              /\ poly_points' = <<>>
                              /\ last' = [op |-> "update_poly_param",
                                          outcome |-> "updated"]
    /\ UNCHANGED <<model_file, distance_list, velocity_list, radar_list,
                   sin_points, gmm_file, world, call>>

-----------------------------------------------------------------------------
(* Model.update_sin_param                                                  *)

\* fewest buffered points update_sin_param works on
MinSinPoints == 30

\* DL: distance of the front-left slot, or the sentinel 100
LeadingGap(radars) ==
    IF Nth0(radars, 1) # <<>> THEN Nth0(Nth0(Nth0(radars, 1), 1), 0) ELSE R(100)

\* DF: distance of the rear-left slot, or the sentinel -100
FollowingGap(radars) ==
    IF Nth0(radars, 2) # <<>> THEN Nth0(Nth0(Nth0(radars, 2), 1), 0) ELSE R(-100)

\* the row [V, H, DL, DF, new_dt] of GMM_train_data.csv
GmmRow(lc, new) ==
    <<Nth0(velocity_list, lc.start_index).v.x, new.lat_dis,
      LeadingGap(Nth0(radar_list, lc.start_index).r),
      FollowingGap(Nth0(radar_list, lc.start_index).r), new.dt>>

\* the file after the row is added: loaded, made two-dimensional and
\* appended to when it exists, created with the one row otherwise
GmmSave(row) == IF gmm_file # <<>> THEN Append(gmm_file, row) ELSE <<row>>

UpdateSinParam ==
    /\ IF Len(sin_points) < MinSinPoints
       THEN /\ last' = [op |-> "update_sin_param", outcome |-> "noop"]
            /\ UNCHANGED <<model, sin_points, gmm_file>>
       ELSE LET lc == GetLaneChangingPoints(PointsIn(sin_points))
            IN  IF Len(lc.x_v) < MinLanePoints
                THEN /\ last' = [op |-> "update_sin_param", outcome |-> "noop"]
                     /\ UNCHANGED <<model, sin_points, gmm_file>>
                ELSE IF \/ lc.start_index >= Len(velocity_list)
                        \/ lc.start_index >= Len(radar_list)
                THEN \* list index out of range
                     /\ last' = [op |-> "update_sin_param", outcome |-> "IndexError"]
                     /\ UNCHANGED <<model, sin_points, gmm_file>>
                ELSE LET new == Observed(lc)
                     IN  /\ gmm_file' = GmmSave(GmmRow(lc, new))
                         /\ model' = [model EXCEPT !.sin_param =
                                         Blended(GetParameter("sin_param"), new)]
                         /\ sin_points' = <<>>
                         /\ last' = [op |-> "update_sin_param", outcome |-> "updated"]
    /\ UNCHANGED <<model_file, distance_list, velocity_list, radar_list,
                   poly_points, world, call>>

-----------------------------------------------------------------------------
(* Model.update_safe_distance, Model.update_target_speed                   *)

\* int(): truncation of a non-negative float
IntOf(a) == a[1] \div a[2]

\* percentage = 0.2, in both estimators
Percentage == Frac(1, 5)

\* update_safe_distance returns when length <= 5
MinDistLength == 5

\* update_target_speed returns when length <= 10
MinSpeedLength == 10

\* a sample counts as driving straight when abs(v.x) > 4 ...
StraightSpeed == 4

\* ... and abs(v.x) / abs(v.y) > 30
StraightRatio == 30

\* km/h per m/s
KmhPerMs == Frac(36, 10)

\* position of s[i] in the sorted list: the sort is stable
RankAsc(s, i) ==
    Cardinality({j \in 1..Len(s) : RLt(s[j], s[i]) \/ (s[j] = s[i] /\ j < i)}) + 1

\* list.sort()
SortAsc(s) ==
    LET t    == Tup(s)
        rank == Tup([i \in 1..Len(t) |-> RankAsc(t, i)])
    IN  Tup([k \in 1..Len(t) |-> t[CHOOSE i \in 1..Len(t) : rank[i] = k]])

\* list.sort(reverse=True)
SortDesc(s) == LET a == SortAsc(s) IN Tup([i \in 1..Len(a) |-> a[Len(a) + 1 - i]])

\* sum(sorted[0:length]) / length
MeanOfFirst(sorted, length) == RDiv(RSum(Slice0(sorted, length)), R(length))

\* the distances of the buffer, without the tags
DistancesIn(buffer) == Tup([i \in 1..Len(buffer) |-> buffer[i].d])

\* variant: the test is on 0.2 * len, not on its integer part
EnoughDistancesExact(n) == RGt(RMul(Percentage, R(n)), R(MinDistLength))

\* length > 5, for length = int(percentage * n)
EnoughDistances(n) == IntOf(RMul(Percentage, R(n))) > MinDistLength

UpdateSafeDistance ==
    LET length == IntOf(RMul(Percentage, R(Len(distance_list))))
    IN  /\ IF ~EnoughDistances(Len(distance_list))
           THEN /\ last' = [op |-> "update_safe_distance", outcome |-> "noop"]
                /\ UNCHANGED <<model, distance_list>>
           ELSE LET new_dist == MeanOfFirst(SortAsc(DistancesIn(distance_list)), length)
                IN  /\ model' = [model EXCEPT !.safe_distance =
                                    ChangeParam(GetParameter("safe_distance"),
                                                new_dist, DefaultRate)]
                    /\ distance_list' = <<>>
                    /\ last' = [op |-> "update_safe_distance", outcome |-> "updated"]
        /\ UNCHANGED <<model_file, velocity_list, radar_list, poly_points,
                       sin_points, gmm_file, world, call>>

\* the loop divides by abs(v.y) for every sample with abs(v.x) > 4: a float
\* division by zero raises ZeroDivisionError
DividesByZero(v) == RGt(RAbs(v.x), R(StraightSpeed)) /\ v.y = R(0)

\* abs(v.x) > 4 and abs(v.x) / abs(v.y) > 30, for a sample that does not raise
GoingStraight(v) ==
    /\ RGt(RAbs(v.x), R(StraightSpeed))
    /\ RGt(RDiv(RAbs(v.x), RAbs(v.y)), R(StraightRatio))

\* speed_straight_list: 3.6 * v.x of the samples going straight, in order
SpeedStraightList(buffer) ==
    LET straight == SelectSeq(buffer, LAMBDA s : GoingStraight(s.v))
    IN  Tup([i \in 1..Len(straight) |-> RMul(KmhPerMs, straight[i].v.x)])

UpdateTargetSpeed ==
    /\ IF \E i \in 1..Len(velocity_list) : DividesByZero(velocity_list[i].v)
       THEN /\ last' = [op |-> "update_target_speed", outcome |-> "ZeroDivisionError"]
            /\ UNCHANGED <<model, velocity_list>>
       ELSE LET speed_straight_list == SpeedStraightList(velocity_list)
                length == IntOf(RMul(Percentage, R(Len(speed_straight_list))))
            IN  IF length <= MinSpeedLength
                THEN /\ last' = [op |-> "update_target_speed", outcome |-> "noop"]
                     /\ UNCHANGED <<model, velocity_list>>
                ELSE LET new_speed == MeanOfFirst(SortDesc(speed_straight_list), length)
                     IN  /\ model' = [model EXCEPT !.target_speed =
                                         ChangeParam(GetParameter("target_speed"),
                                                     new_speed, DefaultRate)]
                         /\ velocity_list' = <<>>
                         /\ last' = [op |-> "update_target_speed", outcome |-> "updated"]
    /\ UNCHANGED <<model_file, distance_list, radar_list, poly_points,
                   sin_points, gmm_file, world, call>>

-----------------------------------------------------------------------------
(* Model.store_new_model, Model.end_collect, Model.load_model              *)

\* the file after store_new_model
StoreNewModel == PickleDump(model)

\* variant: end_collect runs the safe-distance estimator before it saves
EndCollectEstimating ==
    /\ IF ~EnoughDistances(Len(distance_list))
       THEN /\ model_file' = StoreNewModel
            /\ UNCHANGED <<model, distance_list>>
       ELSE LET length == IntOf(RMul(Percentage, R(Len(distance_list))))
                m == [model EXCEPT !.safe_distance =
                         ChangeParam(model.safe_distance,
                                     MeanOfFirst(SortAsc(DistancesIn(distance_list)),
                                                 length), DefaultRate)]
            IN  /\ model' = m
                /\ model_file' = PickleDump(m)
                /\ distance_list' = <<>>
    /\ last' = [op |-> "end_collect", outcome |-> "ok"]
    /\ UNCHANGED <<velocity_list, radar_list, poly_points, sin_points, gmm_file,
                   world, call>>

\* the four update calls sit in a string literal: only the save runs
EndCollect ==
    /\ model_file' = StoreNewModel
    /\ last' = [op |-> "end_collect", outcome |-> "ok"]
    /\ UNCHANGED <<model, distance_list, velocity_list, radar_list, poly_points,
                   sin_points, gmm_file, world, call>>

\* the file is created with the default model when it does not exist (<<>>),
\* then loaded
LoadModel ==
    /\ model_file' = IF model_file = <<>> THEN PickleDump(DefaultModel) ELSE model_file
    /\ model' = PickleLoad(model_file')
    /\ last' = [op |-> "load_model", outcome |-> "ok"]
    /\ UNCHANGED <<distance_list, velocity_list, radar_list, poly_points,
                   sin_points, gmm_file, world, call>>

Next ==
    \/ Collect
    \/ UpdatePolyParam
    \/ UpdateSinParam
    \/ UpdateSafeDistance
    \/ UpdateTargetSpeed
    \/ EndCollect
    \/ LoadModel

Spec == Init /\ [][Next]_vars

-----------------------------------------------------------------------------
(* The static methods called on their own.                                 *)

\* current and new range over the halves -BlendRange/2 .. BlendRange/2
BlendRange == 4

BlendValues == {Frac(n, 2) : n \in (-BlendRange)..BlendRange}

\* the rates tried: negative, zero, the default 0.1, and larger ones
BlendRates == {Frac(-1, 10), R(0), DefaultRate, Frac(1, 2), R(2)}

\* the program as constructed, with change_param(current, new, rate) called
InitBlend ==
    /\ Constructed
    /\ \E c \in BlendValues, n \in BlendValues, r \in BlendRates :
         call = [fn |-> "change_param", pc |-> "called", current |-> c, new |-> n,
                 max_change_rate |-> r, result |-> <<>>]

ReturnChangeParam ==
    /\ call.fn = "change_param"
    /\ call.pc = "called"
    /\ call' = [call EXCEPT !.pc = "returned",
                            !.result = ChangeParam(call.current, call.new,
                                                   call.max_change_rate)]
    /\ UNCHANGED <<model, model_file, distance_list, velocity_list, radar_list,
                   poly_points, sin_points, gmm_file, world, last>>

SpecBlend == InitBlend /\ [][ReturnChangeParam]_vars

\* pose sequences of 2 .. MaxPoses samples are tried
MaxPoses == 4

\* lateral movement between two samples, in the frame of the first pose:
\* none, a drift above the threshold, a step to the left, a step to the right
LateralSteps == {R(0), Frac(-1, 100), Frac(-1, 20), Frac(1, 20)}

\* headings of the first pose
Headings == {0, 90, 180, 270}

\* the sequences of n lateral steps
RECURSIVE StepSeqs(_)
StepSeqs(n) ==
    IF n = 0 THEN {<<>>}
    ELSE {Append(s, d) : s \in StepSeqs(n - 1), d \in LateralSteps}

\* lateral offset after the first k steps
RECURSIVE OffsetAfter(_, _)
OffsetAfter(steps, k) ==
    IF k = 0 THEN R(0) ELSE RAdd(OffsetAfter(steps, k - 1), steps[k])

\* poses (x, y, z, yaw, t_ms) of a vehicle that starts at (7, -3) with heading
\* yaw, advances 2 m per sample and moves sideways by steps
PosesOf(yaw, steps) ==
    Tup([i \in 1..(Len(steps) + 1) |->
        LET f == R(2 * (i - 1))
            l == OffsetAfter(steps, i - 1)
        IN  <<RAdd(R(7), RSub(RMul(R(Cos(yaw)), f), RMul(R(Sin(yaw)), l))),
              RAdd(R(-3), RAdd(RMul(R(Sin(yaw)), f), RMul(R(Cos(yaw)), l))),
              R(0), yaw, 1000 + 50 * i>>])

\* the program as constructed, with get_lane_changing_points(points) called
InitLane ==
    /\ Constructed
    /\ \E n \in 1..(MaxPoses - 1) : \E steps \in StepSeqs(n) : \E yaw \in Headings :
         call = [fn |-> "get_lane_changing_points", pc |-> "called",
                 steps |-> steps, points |-> PosesOf(yaw, steps), result |-> <<>>]

ReturnLaneChangingPoints ==
    /\ call.fn = "get_lane_changing_points"
    /\ call.pc = "called"
    /\ call' = [call EXCEPT !.pc = "returned",
                            !.result = GetLaneChangingPoints(call.points)]
    /\ UNCHANGED <<model, model_file, distance_list, velocity_list, radar_list,
                   poly_points, sin_points, gmm_file, world, last>>

SpecLane == InitLane /\ [][ReturnLaneChangingPoints]_vars

-----------------------------------------------------------------------------
(* LearningAgent.collect: the driving loop samples the world through the   *)
(* agent, which builds the observation record and hands it to              *)
(* Model.collect.                                                          *)

\* math.sqrt, to two decimals (rounded down)
Sqrt(a) ==
    Frac(CHOOSE n \in 0..((IntOf(a) + 1) * 100) :
             /\ n * n * a[2] <= a[1] * 10000
             /\ (n + 1) * (n + 1) * a[2] > a[1] * 10000,
         100)

\* speed = 3.6 * math.sqrt(v.x ** 2 + v.y ** 2 + v.z ** 2)
SpeedOf(v) ==
    RMul(KmhPerMs, Sqrt(RAdd(RAdd(RPow(v.x, 2), RPow(v.y, 2)), RPow(v.z, 2))))

\* obstacle_sensor.close_to_obstacle
CloseToObstacle(w) == w.tick >= Drive.obstacle

\* obstacle_sensor.distance_to_obstacle
DistanceToObstacle(w) == Frac(Drive.gap0 - Drive.closing * w.tick, 100)

\* [location.x, location.y, rotation.yaw, pygame.time.get_ticks()]
AgentPointOf(w) == <<PointOf(w)[1], PointOf(w)[2], PointOf(w)[4], PointOf(w)[5]>>

\* dict_param as LearningAgent.collect builds it in world w, when the test on
\* the velocity does not raise; "tick" tags each value with the call
AgentRecord(w) ==
    LET v == VelocityOf(w)
        pts == [k \in {"poly_points"} |-> [p |-> AgentPointOf(w), tick |-> w.tick]]
        spd == IF GoingStraight(v)
               THEN [k \in {"speed"} |-> [s |-> SpeedOf(v), tick |-> w.tick]]
               ELSE <<>>
        dst == IF CloseToObstacle(w)
               THEN [k \in {"distance"} |->
                        [d |-> DistanceToObstacle(w), tick |-> w.tick]]
               ELSE <<>>
    IN  pts @@ spd @@ dst

\* one tick of the driving loop through the agent.  abs(v.x)/abs(v.y) raises
\* ZeroDivisionError when v.y = 0 and abs(v.x) > 4: the exception leaves
\* collect before Model.collect is called
AgentCollect ==
    /\ world.tick < MaxTick
    /\ \E w \in WorldSteps(world) :
         /\ world' = w
         /\ IF DividesByZero(VelocityOf(w))
            THEN /\ last' = [op |-> "LearningAgent.collect",
                             outcome |-> "ZeroDivisionError"]
                 /\ UNCHANGED <<velocity_list, distance_list, poly_points,
                                sin_points, radar_list>>
            ELSE /\ ModelCollect(AgentRecord(w))
                 /\ last' = [op |-> "LearningAgent.collect", outcome |-> "ok"]
    /\ UNCHANGED <<model, model_file, gmm_file, call>>

\* a session driven through the agent
NextAgent ==
    \/ AgentCollect
    \/ UpdatePolyParam
    \/ UpdateSinParam
    \/ UpdateSafeDistance
    \/ UpdateTargetSpeed
    \/ EndCollect
    \/ LoadModel

SpecAgent == Init /\ [][NextAgent]_vars

-----------------------------------------------------------------------------
(* Properties: sample buffers                                              *)

\* C1 (as claimed): the i-th trajectory point of the sinusoidal buffer was
\* recorded by the same collect call as the i-th velocity sample and the i-th
\* radar snapshot.  Every collect call of Spec carries all three fields.
AlignedBuffers ==
    \A i \in 1..Len(sin_points) :
        /\ i <= Len(velocity_list)
        /\ i <= Len(radar_list)
        /\ velocity_list[i].tick = sin_points[i].tick
        /\ radar_list[i].tick = sin_points[i].tick

-----------------------------------------------------------------------------
(* Properties: change_param                                                *)

Returned(fn) == call.fn = fn /\ call.pc = "returned"

\* the largest step: max_change_rate * |current|
MaxStep == RMul(call.max_change_rate, RAbs(call.current))

\* C2: for a non-negative max_change_rate the result is within
\* max_change_rate * |current| of current; it is the proposed value when that
\* lies strictly within the step, and otherwise exactly one step away.
BlendRateLimit ==
    (Returned("change_param") /\ RLe(R(0), call.max_change_rate)) =>
        /\ RLe(RAbs(RSub(call.result, call.current)), MaxStep)
        /\ IF RLt(RAbs(RSub(call.new, call.current)), MaxStep)
           THEN call.result = call.new
           ELSE RAbs(RSub(call.result, call.current)) = MaxStep

\* a call with the default rate whose proposal was out of reach: the result is
\* a proper step away from current and is not the proposal
BlendClampedSeen ==
    /\ Returned("change_param")
    /\ call.max_change_rate = DefaultRate
    /\ call.result # call.new
    /\ call.result # call.current

\* C3 (as claimed): whenever proposed # current, the result lies on the same
\* side of current as the proposed value.
BlendDirection ==
    (Returned("change_param") /\ call.new # call.current) =>
        RSign(RSub(call.result, call.current)) = RSign(RSub(call.new, call.current))

\* C3 (amended): whenever proposed # current, current # 0 and max_rate > 0,
\* the result lies on the same side of current as the proposed value.
BlendDirectionNonZero ==
    (/\ Returned("change_param")
     /\ call.new # call.current
     /\ call.current # R(0)
     /\ RGt(call.max_change_rate, R(0))) =>
        RSign(RSub(call.result, call.current)) = RSign(RSub(call.new, call.current))

\* a negative current value stepped towards a larger proposal it cannot reach
BlendMovedTowards ==
    /\ Returned("change_param")
    /\ RLt(call.current, R(0))
    /\ RGt(call.max_change_rate, R(0))
    /\ RGt(call.new, call.current)
    /\ call.result # call.new
    /\ RGt(call.result, call.current)

-----------------------------------------------------------------------------
(* Properties: get_lane_changing_points                                    *)

\* Python indices of the input samples that qualify: sample j moved left of
\* sample j - 1 by more than the threshold
QualifyingSamples == {j \in 1..Len(call.steps) : RLt(call.steps[j], LeftStep)}

\* C4 (as claimed): the returned start index is the index within the input of
\* the first kept sample; when no sample qualifies it is -1 and the returned
\* sequences are empty.
StartIndexIsFirstKept ==
    Returned("get_lane_changing_points") =>
        IF QualifyingSamples # {}
        THEN call.result.start_index =
                 CHOOSE j \in QualifyingSamples : \A k \in QualifyingSamples : j <= k
        ELSE /\ call.result.start_index = -1
             /\ call.result.x_v = <<>>
             /\ call.result.y_v = <<>>
             /\ call.result.t_v = <<>>

-----------------------------------------------------------------------------
(* Properties: the estimators and fitters                                  *)

UpdateOps == {"update_poly_param", "update_sin_param", "update_safe_distance",
              "update_target_speed"}

\* the velocity samples that drive straight, a sample with v.y = 0 not being one
StraightSamples ==
    SelectSeq(velocity_list, LAMBDA s : s.v.y # R(0) /\ GoingStraight(s.v))

\* the samples buffered for an operation are too few for it to learn from
Insufficient(op) ==
    IF op = "update_poly_param"
    THEN \/ Len(poly_points) < MinPolyPoints
         \/ Len(GetLaneChangingPoints(PointsIn(poly_points)).x_v) < MinLanePoints
    ELSE IF op = "update_sin_param"
    THEN \/ Len(sin_points) < MinSinPoints
         \/ Len(GetLaneChangingPoints(PointsIn(sin_points)).x_v) < MinLanePoints
    ELSE IF op = "update_safe_distance"
    THEN ~EnoughDistances(Len(distance_list))
    ELSE IntOf(RMul(Percentage, R(Len(StraightSamples)))) <= MinSpeedLength

\* the model, the sample buffers and both files are as they were
NothingLearned ==
    UNCHANGED <<model, model_file, distance_list, velocity_list, radar_list,
                poly_points, sin_points, gmm_file>>

\* C5 (as claimed): an estimator or fitter called on insufficient samples
\* returns without an error and changes nothing; and no call ends with only
\* part of its update applied.
NoOpOnInsufficientData ==
    [][\A op \in UpdateOps :
          /\ (last'.op = op /\ Insufficient(op)) =>
                 (last'.outcome = "noop" /\ NothingLearned)
          /\ (last'.op = op /\ last'.outcome # "updated") => NothingLearned]_vars

\* the speeds update_target_speed works on when samples with v.y = 0 are
\* excluded
SpeedsExcludingZero ==
    Tup([i \in 1..Len(StraightSamples) |-> RMul(KmhPerMs, StraightSamples[i].v.x)])

\* C6 (as claimed): when update_target_speed meets a sample with v.y = 0, the
\* sample is excluded, no error is raised, and the other samples are processed
\* as usual.
ZeroLateralVelocityExcluded ==
    [][(/\ last'.op = "update_target_speed"
        /\ \E i \in 1..Len(velocity_list) : velocity_list[i].v.y = R(0)) =>
          LET length == IntOf(RMul(Percentage, R(Len(SpeedsExcludingZero))))
          IN  IF length <= MinSpeedLength
              THEN last'.outcome = "noop" /\ UNCHANGED <<model, velocity_list>>
              ELSE /\ last'.outcome = "updated"
                   /\ velocity_list' = <<>>
                   /\ model'.target_speed =
                          ChangeParam(model.target_speed,
                                      MeanOfFirst(SortDesc(SpeedsExcludingZero), length),
                                      DefaultRate)]_vars

\* sum of the k smallest elements of s
RECURSIVE SumLowest(_, _)
SumLowest(s, k) ==
    IF k = 0 THEN R(0)
    ELSE LET i == CHOOSE i \in 1..Len(s) : \A j \in 1..Len(s) : RLe(s[i], s[j])
         IN  RAdd(s[i], SumLowest(SubSeq(s, 1, i - 1) \o SubSeq(s, i + 1, Len(s)), k - 1))

\* what update_safe_distance does when it learns from the k lowest distances
LearnsSafeDistance(k) ==
    /\ last'.outcome = "updated"
    /\ model' = [model EXCEPT !.safe_distance =
                    ChangeParam(model.safe_distance,
                                RDiv(SumLowest(DistancesIn(distance_list), k), R(k)),
                                DefaultRate)]
    /\ distance_list' = <<>>

PolyAt(c, t) == RSum(Tup([i \in 1..Len(c) |-> RMul(c[i], RPow(t, i - 1))]))

\* coefficients of the derivative
Derivative(c) == Tup([i \in 1..(Len(c) - 1) |-> RMul(R(i), c[i + 1])])

\* c is a quintic from (0, v0, 0) at t = 0 to (pT, vT, 0) at t = dt
QuinticMeets(c, dt, v0, pT, vT) ==
    /\ Len(c) = 6
    /\ PolyAt(c, R(0)) = R(0)
    /\ PolyAt(Derivative(c), R(0)) = v0
    /\ PolyAt(Derivative(Derivative(c)), R(0)) = R(0)
    /\ PolyAt(c, dt) = pT
    /\ PolyAt(Derivative(c), dt) = vT
    /\ PolyAt(Derivative(Derivative(c)), dt) = R(0)

PolyUpdated == last = [op |-> "update_poly_param", outcome |-> "updated"]

\* C8 (as claimed): after a successful update_poly_param both coefficient
\* vectors start from position, velocity and acceleration 0 and end at dt with
\* the blended displacement, velocity lon_dis/dt (longitudinal) or 0 (lateral)
\* and acceleration 0.
QuinticFromRest ==
    PolyUpdated =>
        LET p == model.poly_param
        IN  /\ QuinticMeets(p.lon_param, p.dt, R(0), p.lon_dis, RDiv(p.lon_dis, p.dt))
            /\ QuinticMeets(p.lat_param, p.dt, R(0), p.lat_dis, R(0))

\* C8 (amended): as claimed, except that the longitudinal polynomial starts
\* with velocity lon_dis/dt at t = 0 (the lateral one with velocity 0).
QuinticBoundary ==
    PolyUpdated =>
        LET p == model.poly_param
        IN  /\ QuinticMeets(p.lon_param, p.dt, RDiv(p.lon_dis, p.dt), p.lon_dis,
                            RDiv(p.lon_dis, p.dt))
            /\ QuinticMeets(p.lat_param, p.dt, R(0), p.lat_dis, R(0))

\* a fit to a lane change whose duration was within reach of the stored one
PolyParamFitted ==
    /\ PolyUpdated
    /\ model.poly_param.dt = Frac(15, 4)
    /\ model.poly_param.lat_param[4] # R(0)

\* C9: both shape models keep dt > 0 and both coefficient vectors keep exactly
\* 6 elements.
ParameterModelInvariant ==
    /\ RGt(model.poly_param.dt, R(0))
    /\ RGt(model.sin_param.dt, R(0))
    /\ Len(model.poly_param.lon_param) = 6
    /\ Len(model.poly_param.lat_param) = 6

\* both fitters have learned from a lane change observed with a stalled clock
\* (observed duration 0)
LearnedFromStalledClock ==
    /\ world.stalled
    /\ last.outcome = "updated"
    /\ model.sin_param.dt # DefaultModel.sin_param.dt
    /\ model.poly_param.dt # DefaultModel.poly_param.dt

\* C10: end_collect changes no parameter and no sample buffer and writes the
\* in-memory model to the file; a load_model directly afterwards yields the
\* parameter values held before the call.
EndCollectOnlySaves ==
    [][/\ last'.op = "end_collect" =>
            /\ UNCHANGED <<model, distance_list, velocity_list, radar_list,
                           poly_points, sin_points, gmm_file>>
            /\ PickleLoad(model_file') = model
       /\ (last.op = "end_collect" /\ last'.op = "load_model") => model' = model]_vars

\* a learned model was saved by end_collect with samples still buffered, and
\* has been loaded back
LearnedModelReloaded ==
    /\ last.op = "load_model"
    /\ model_file # PickleDump(DefaultModel)
    /\ model = PickleLoad(model_file)
    /\ sin_points # <<>>

-----------------------------------------------------------------------------
(* Properties: life cycle of the sample buffers                            *)

\* buffer s is the beginning of buffer t
IsPrefix(s, t) == Len(s) <= Len(t) /\ SubSeq(t, 1, Len(s)) = s

\* the call that has just returned completed an update of op
Completed(op) == last'.op = op /\ last'.outcome = "updated"

\* C11 (as claimed): under collect every sample buffer keeps what it held and
\* grows at its end; the buffer an estimator or fitter consumes is empty once
\* that estimator or fitter has completed an update: the trajectory points of
\* each fitter, the distances, the velocities, and the obstacle-gap snapshots
\* update_sin_param reads.
BufferLifecycle ==
    [][/\ last'.op = "collect" =>
            /\ IsPrefix(velocity_list, velocity_list')
            /\ IsPrefix(distance_list, distance_list')
            /\ IsPrefix(poly_points, poly_points')
            /\ IsPrefix(sin_points, sin_points')
            /\ IsPrefix(radar_list, radar_list')
       /\ Completed("update_poly_param") => poly_points' = <<>>
       /\ Completed("update_sin_param") => sin_points' = <<>> /\ radar_list' = <<>>
       /\ Completed("update_safe_distance") => distance_list' = <<>>
       /\ Completed("update_target_speed") => velocity_list' = <<>>]_vars

-----------------------------------------------------------------------------
(* Properties: ingestion through the agent                                 *)

\* the agent's collect has just been called in a world that is now world'
AgentCollected == last'.op = "LearningAgent.collect"

\* buffer grows by exactly the sample of this tick when present, else is kept
Ingested(buffer, next, present) ==
    IF present
    THEN /\ Len(next) = Len(buffer) + 1
         /\ IsPrefix(buffer, next)
         /\ next[Len(next)].tick = world'.tick
    ELSE next = buffer

\* C12 (as claimed): every LearningAgent.collect call hands Model.collect one
\* record; the tick's trajectory point is appended to both trajectory-point
\* buffers on every call, the speed sample to the velocity buffer when the
\* vehicle drives straight, and the obstacle distance to the distance buffer
\* when an obstacle is close.
PerTickIngestion ==
    [][AgentCollected =>
          /\ last'.outcome = "ok"
          /\ Ingested(poly_points, poly_points', TRUE)
          /\ Ingested(sin_points, sin_points', TRUE)
          /\ Ingested(velocity_list, velocity_list',
                      LET v == VelocityOf(world')
                      IN  RGt(RAbs(v.x), R(StraightSpeed))
                          /\ v.y # R(0) /\ GoingStraight(v))
          /\ Ingested(distance_list, distance_list', CloseToObstacle(world'))]_vars

====
